---- MODULE Spec2Model ----
(***************************************************************************)
(* A model of contributors.py: since_datetime, find_recent_contributors    *)
(* and main.                                                               *)
(*                                                                         *)
(* Strings are sequences of character codes, so that str.lower(), the      *)
(* ordering used by sorted() and str.split(",") are computed as Python     *)
(* computes them.  A Python dict is the sequence of its (key, value)       *)
(* items in insertion order.  The remote API (PyGithub) is the             *)
(* environment: each of its answers is a nondeterministic choice.          *)
(***************************************************************************)
EXTENDS Integers, Sequences, FiniteSets, TLC

(***************************************************************************)
(* Bounds of the model.                                                    *)
(***************************************************************************)
\* longest commit listing a repository delivers
MaxCommits == 3
\* most repository names in the -r argument
MaxRepos == 2
\* largest argument of since_datetime that is explored
MaxDays == 2
\* resolution of the modelled clock: seconds in a day, microseconds in a second
SecondsPerDay == 2
MicrosPerSecond == 2

\* DAYS_AGO = 90
DAYS_AGO == 90

TicksPerDay == SecondsPerDay * MicrosPerSecond
\* the clock may advance by up to this much between a call and its clock read
MaxDrift == TicksPerDay + 1
\* the earliest clock reading explored (late enough for DAYS_AGO days before it)
ClockEpoch == DAYS_AGO * TicksPerDay

(***************************************************************************)
(* Strings.                                                                *)
(***************************************************************************)
\* "a@x", "A@x": two addresses that differ in case only
Emails == {<<97, 64, 120>>, <<65, 64, 120>>}
\* "Bo", "bo", "Al": author names as the API delivers them
Names == {<<66, 111>>, <<98, 111>>, <<65, 108>>}
\* "r", "s"
RepoNames == {<<114>>, <<115>>}
Comma == 44

\* the commit records of the API: commit.commit.author.{email, name}
Commits == [email : Emails, name : Names]

\* str.lower() on ASCII
Lower(s) == [i \in DOMAIN s |-> IF s[i] \in 65..90 THEN s[i] + 32 ELSE s[i]]

\* str.__lt__: lexicographic on code points, a proper prefix is smaller
StrLess(a, b) ==
    \E i \in 1..(Len(b)) :
        /\ \A j \in 1..(i - 1) : j <= Len(a) /\ a[j] = b[j]
        /\ \/ i = Len(a) + 1
           \/ i <= Len(a) /\ a[i] < b[i]

\* tuple.__lt__ on (key, value) items whose components are strings
ItemLess(p, q) == StrLess(p[1], q[1]) \/ (p[1] = q[1] /\ StrLess(p[2], q[2]))

\* str.split(","): the pieces between the commas, empty pieces kept
RECURSIVE SplitFrom(_, _, _)
SplitFrom(s, i, piece) ==
    IF i > Len(s) THEN <<piece>>
    ELSE IF s[i] = Comma THEN <<piece>> \o SplitFrom(s, i + 1, <<>>)
    ELSE SplitFrom(s, i + 1, Append(piece, s[i]))

Split(s) == SplitFrom(s, 1, <<>>)

\* ",".join(names): how a list of repository names is written as the -r argument
RECURSIVE Join(_)
Join(names) ==
    IF Len(names) = 0 THEN <<>>
    ELSE IF Len(names) = 1 THEN names[1]
    ELSE names[1] \o <<Comma>> \o Join(Tail(names))

(***************************************************************************)
(* Python dicts: sequences of <<key, value>> in insertion order.           *)
(***************************************************************************)
DictKeys(d) == {d[i][1] : i \in DOMAIN d}

\* d.items(): (key, value) \in d.items() compares the whole pair
DictItems(d) == {d[i] : i \in DOMAIN d}

\* d[k] = v: an existing key keeps its place, a new key goes last
DictSet(d, k, v) ==
    IF \E i \in DOMAIN d : d[i][1] = k
    THEN [i \in DOMAIN d |-> IF d[i][1] = k THEN <<k, v>> ELSE d[i]]
    ELSE Append(d, <<k, v>>)

\* an update that keeps the entries d has: d[k] = v only for new keys
RECURSIVE DictUpdateKeepsExisting(_, _)
DictUpdateKeepsExisting(d, other) ==
    IF other = <<>> THEN d
    ELSE DictUpdateKeepsExisting(
             IF other[1][1] \in DictKeys(d) THEN d
             ELSE Append(d, other[1]),
             Tail(other))

\* d.update(other)
RECURSIVE DictUpdate(_, _)
DictUpdate(d, other) ==
    IF other = <<>> THEN d
    ELSE DictUpdate(DictSet(d, other[1][1], other[1][2]), Tail(other))

\* dict(items)
DictFromItems(items) == DictUpdate(<<>>, items)

\* sorted(items): ascending by ItemLess (insertion sort, stable)
RECURSIVE InsertSorted(_, _)
InsertSorted(sorted, item) ==
    IF sorted = <<>> THEN <<item>>
    ELSE IF ItemLess(item, sorted[1]) THEN <<item>> \o sorted
    ELSE <<sorted[1]>> \o InsertSorted(Tail(sorted), item)

RECURSIVE Sorted(_)
Sorted(items) ==
    IF items = <<>> THEN <<>>
    ELSE InsertSorted(Sorted(SubSeq(items, 1, Len(items) - 1)), items[Len(items)])

(***************************************************************************)
(* since_datetime.  A datetime is a date (day number) and a time of day    *)
(* (second, microsecond); the clock is an integer count of microseconds.   *)
(***************************************************************************)
\* datetime.today(): the naive local time the clock shows
Today(now) ==
    [day |-> now \div TicksPerDay,
     second |-> (now % TicksPerDay) \div MicrosPerSecond,
     microsecond |-> now % MicrosPerSecond]

\* datetime + timedelta(days=days)
PlusDays(dt, d) == [dt EXCEPT !.day = dt.day + d]

\* datetime - timedelta(days=days)
MinusDays(dt, d) == [dt EXCEPT !.day = dt.day - d]

\* datetime.isoformat(): the microseconds are left out when they are zero
IsoFormat(dt) ==
    IF dt.microsecond = 0 THEN <<dt.day, dt.second>>
    ELSE <<dt.day, dt.second, dt.microsecond>>

\* datetime.fromisoformat(): missing microseconds read as zero
FromIsoFormat(s) ==
    [day |-> s[1], second |-> s[2],
     microsecond |-> IF Len(s) >= 3 THEN s[3] ELSE 0]

since_datetime(now, d) == FromIsoFormat(IsoFormat(MinusDays(Today(now), d)))

\* the instant a datetime denotes, on the clock's scale
Instant(dt) == (dt.day * SecondsPerDay + dt.second) * MicrosPerSecond + dt.microsecond

(***************************************************************************)
(* find_recent_contributors: one pass of the loop body.                    *)
(***************************************************************************)
author_name(commit) == Lower(commit.name)
author_email(commit) == commit.email

\* a duplicate test on the key alone
IsDuplicateByKey(auths, commit) == author_email(commit) \in DictKeys(auths)

\* (author_email, author_name) in authors.items()
IsDuplicate(auths, commit) ==
    <<author_email(commit), author_name(commit)>> \in DictItems(auths)

\* a loop body that never overwrites an email it has
CommitStepKeepsFirst(auths, commit) ==
    IF author_email(commit) \notin DictKeys(auths)
    THEN DictSet(auths, author_email(commit), author_name(commit))
    ELSE auths

\* the if/else of the loop body
CommitStep(auths, commit) ==
    IF ~IsDuplicate(auths, commit)
    THEN DictSet(auths, author_email(commit), author_name(commit))
    ELSE auths

(***************************************************************************)
(* State.                                                                  *)
(***************************************************************************)
VARIABLES
    pc,               \* where main is
    repos,            \* the -r option: None, or its string
    idx,              \* position of the for loop in repos.split(",")
    repo_stats,       \* the report
    all_contributors, \* the global mapping
    past_date,        \* since_datetime(DAYS_AGO)
    authors,          \* find_recent_contributors' mapping
    iterated,         \* commits the for loop of find_recent_contributors has taken
    stdout,           \* what print() wrote
    errors,           \* calls of logger.error
    lookups,          \* calls of github.get_repo
    listings,         \* commit listings requested (totalCount probes)
    outcome,          \* history: per repository handled, what the API answered
                      \* and what find_recent_contributors returned
    raised,           \* history: the API raised while the commits were iterated
    recording,        \* whether listing and warned are kept
    listing,          \* history: the commits the current listing delivered
    warned,           \* history: per commit, whether the duplicate warning was logged
    clock,            \* the wall clock
    sincePc,          \* where a stand-alone call of since_datetime is
    days,             \* since_datetime's argument in a stand-alone call
    callTime,         \* the clock at the stand-alone call
    result            \* the stand-alone call's return value

mainVars == <<pc, repos, idx, repo_stats, all_contributors, past_date, authors,
              iterated, stdout, errors, lookups, listings, outcome, raised,
              recording, listing, warned>>
sinceVars == <<sincePc, days, callTime, result>>
vars == <<mainVars, clock, sinceVars>>

None == [isNone |-> TRUE, value |-> <<>>]
Str(s) == [isNone |-> FALSE, value |-> s]

NoDate == [day |-> 0, second |-> 0, microsecond |-> 0]

\* the lists of at most n repository names
RECURSIVE NameLists(_)
NameLists(n) ==
    IF n = 0 THEN {<<>>}
    ELSE NameLists(n - 1) \cup
         {Append(l, r) : l \in {x \in NameLists(n - 1) : Len(x) = n - 1}, r \in RepoNames}

\* the -r arguments explored: absent, or up to n names joined by commas
ReposArgs(n) == {None} \cup {Str(Join(l)) : l \in NameLists(n) \ {<<>>}}

InitMain(args, rec) ==
    /\ pc = "start"
    /\ repos \in args
    /\ idx = 0
    /\ repo_stats = [repositories |-> <<>>, contributors |-> <<>>]
    /\ all_contributors = <<>>
    /\ past_date = NoDate
    /\ authors = <<>>
    /\ iterated = 0
    /\ stdout = <<>>
    /\ errors = 0
    /\ lookups = 0
    /\ listings = 0
    /\ outcome = <<>>
    /\ raised = FALSE
    /\ recording = rec
    /\ listing = <<>>
    /\ warned = <<>>

InitSinceIdle ==
    /\ sincePc = "idle"
    /\ days = DAYS_AGO
    /\ callTime = clock
    /\ result = NoDate

\* main invoked with up to MaxRepos repository names
Init ==
    /\ InitMain(ReposArgs(MaxRepos), FALSE)
    /\ clock = ClockEpoch
    /\ InitSinceIdle

\* main invoked with at most one repository, the commits of its listing recorded
InitCollector ==
    /\ InitMain(ReposArgs(1), TRUE)
    /\ clock = ClockEpoch
    /\ InitSinceIdle

\* a stand-alone call since_datetime(days), days >= 0, at any time of day
InitSince ==
    /\ InitMain({None}, FALSE)
    /\ clock \in ClockEpoch..(ClockEpoch + TicksPerDay - 1)
    /\ sincePc = "called"
    /\ days \in 0..MaxDays
    /\ callTime = clock
    /\ result = NoDate

(***************************************************************************)
(* main.                                                                   *)
(***************************************************************************)
\* repos.split(",")
names == Split(repos.value)

\* the repository the for loop is at
repo == names[idx]

\* lines 92-93 guarded by `if contributors:`: an empty result is not recorded
RecordResultIfAny(contributors, kind) ==
    /\ authors' = <<>>
    /\ iterated' = 0
    /\ repo_stats' = IF contributors = <<>> THEN repo_stats
                     ELSE [repo_stats EXCEPT
                              !.repositories = DictSet(@, repo, Len(contributors))]
    /\ all_contributors' = DictUpdate(all_contributors, contributors)
    /\ outcome' = Append(outcome,
           [repo |-> repo, kind |-> kind, contributors |-> DictItems(contributors)])
    /\ idx' = idx + 1
    /\ pc' = "loop"

\* lines 92-93, after find_recent_contributors returned `contributors`
\* (its locals are gone with its frame)
RecordResult(contributors, kind) ==
    /\ authors' = <<>>
    /\ iterated' = 0
    /\ repo_stats' = [repo_stats EXCEPT
           !.repositories = DictSet(@, repo, Len(contributors))]
    /\ all_contributors' = DictUpdate(all_contributors, contributors)
    /\ outcome' = Append(outcome,
           [repo |-> repo, kind |-> kind, contributors |-> DictItems(contributors)])
    /\ idx' = idx + 1
    /\ pc' = "loop"

\* lines 71-78
Setup ==
    /\ pc = "start"
    /\ repo_stats' = [repositories |-> <<>>, contributors |-> <<>>]
    /\ all_contributors' = <<>>
    /\ past_date' = since_datetime(clock, DAYS_AGO)
    /\ pc' = "check"
    /\ UNCHANGED <<raised, repos, idx, authors, iterated, stdout, errors, lookups,
                   listings, outcome, recording, listing, warned, clock, sinceVars>>

\* lines 80-81 without the sys.exit(): the error is logged and main goes on
UsageErrorGoesOn ==
    /\ pc = "check"
    /\ repos.isNone
    /\ errors' = errors + 1
    /\ idx' = 1
    /\ pc' = "loop"
    /\ UNCHANGED <<raised, repos, repo_stats, all_contributors, past_date, authors,
                   iterated, stdout, lookups, listings, outcome, recording,
                   listing, warned, clock, sinceVars>>

\* lines 80-82: no -r option; logger.error, sys.exit()
UsageError ==
    /\ pc = "check"
    /\ repos.isNone
    /\ errors' = errors + 1
    /\ pc' = "exited"
    /\ UNCHANGED <<raised, repos, idx, repo_stats, all_contributors, past_date, authors,
                   iterated, stdout, lookups, listings, outcome, recording,
                   listing, warned, clock, sinceVars>>

\* line 84: the for loop starts on the first name
EnterLoop ==
    /\ pc = "check"
    /\ ~repos.isNone
    /\ idx' = 1
    /\ pc' = "loop"
    /\ UNCHANGED <<raised, repos, repo_stats, all_contributors, past_date, authors,
                   iterated, stdout, errors, lookups, listings, outcome,
                   recording, listing, warned, clock, sinceVars>>

\* lines 85-90 with the continue replaced by an exit: the run stops at the
\* first repository that is not found
LookupFailsStops ==
    /\ pc = "loop"
    /\ idx <= Len(names)
    /\ lookups' = lookups + 1
    /\ errors' = errors + 2
    /\ outcome' = Append(outcome, [repo |-> repo, kind |-> "notfound", contributors |-> {}])
    /\ pc' = "exited"
    /\ UNCHANGED <<raised, idx, repos, repo_stats, all_contributors, past_date,
                   authors, iterated, stdout, listings, recording, listing, warned,
                   clock, sinceVars>>

\* lines 85-90: github.get_repo raises GithubException; two logger.error, continue
LookupFails ==
    /\ pc = "loop"
    /\ idx <= Len(names)
    /\ lookups' = lookups + 1
    /\ errors' = errors + 2
    /\ outcome' = Append(outcome, [repo |-> repo, kind |-> "notfound", contributors |-> {}])
    /\ idx' = idx + 1
    /\ UNCHANGED <<raised, pc, repos, repo_stats, all_contributors, past_date, authors,
                   iterated, stdout, listings, recording, listing, warned,
                   clock, sinceVars>>

\* lines 86, 91, 34-37: get_repo answers; find_recent_contributors is entered
LookupOk ==
    /\ pc = "loop"
    /\ idx <= Len(names)
    /\ lookups' = lookups + 1
    /\ authors' = <<>>
    /\ iterated' = 0
    /\ listing' = <<>>
    /\ warned' = <<>>
    /\ pc' = "probe"
    /\ UNCHANGED <<raised, repos, idx, repo_stats, all_contributors, past_date, stdout,
                   errors, listings, outcome, recording, clock, sinceVars>>

\* lines 38-42, 92-93: commits.totalCount raises GithubException; return authors
ProbeFails ==
    /\ pc = "probe"
    /\ listings' = listings + 1
    /\ RecordResult(authors, "empty")
    /\ UNCHANGED <<raised, repos, past_date, stdout, errors, lookups, recording, listing,
                   warned, clock, sinceVars>>

\* line 39: commits.totalCount answers
ProbeOk ==
    /\ pc = "probe"
    /\ listings' = listings + 1
    /\ pc' = "iterate"
    /\ UNCHANGED <<raised, repos, idx, repo_stats, all_contributors, past_date, authors,
                   iterated, stdout, errors, lookups, outcome, recording,
                   listing, warned, clock, sinceVars>>

\* lines 44-51: the listing delivers one more commit
NextCommit ==
    /\ pc = "iterate"
    /\ iterated < MaxCommits
    /\ \E commit \in Commits :
        /\ authors' = CommitStep(authors, commit)
        /\ listing' = IF recording THEN Append(listing, commit) ELSE listing
        /\ warned' = IF recording THEN Append(warned, IsDuplicate(authors, commit))
                     ELSE warned
    /\ iterated' = iterated + 1
    /\ UNCHANGED <<raised, pc, repos, idx, repo_stats, all_contributors, past_date, stdout,
                   errors, lookups, listings, outcome, recording, clock, sinceVars>>

\* lines 44-46 inside a try/except that skips the repository
IterationRaisesCaught ==
    /\ pc = "iterate"
    /\ raised' = TRUE
    /\ authors' = <<>>
    /\ iterated' = 0
    /\ idx' = idx + 1
    /\ pc' = "loop"
    /\ UNCHANGED <<repos, repo_stats, all_contributors, past_date, stdout, errors,
                   lookups, listings, outcome, recording, listing, warned, clock,
                   sinceVars>>

\* lines 44-46: fetching or reading a commit raises; nothing catches it
IterationRaises ==
    /\ pc = "iterate"
    /\ raised' = TRUE
    /\ pc' = "aborted"
    /\ UNCHANGED <<repos, idx, repo_stats, all_contributors, past_date, authors,
                   iterated, stdout, errors, lookups, listings, outcome,
                   recording, listing, warned, clock, sinceVars>>

\* lines 52, 92-93: the listing is exhausted; return authors
EndOfListing ==
    /\ pc = "iterate"
    /\ RecordResult(authors, "ok")
    /\ UNCHANGED <<raised, repos, past_date, stdout, errors, lookups, listings, recording,
                   listing, warned, clock, sinceVars>>

\* lines 96-98 without the sorted()
ReportUnsorted ==
    [repositories |-> repo_stats.repositories,
     contributors |-> all_contributors,
     num_unique_contributors |-> Len(all_contributors)]

\* lines 96-98
Report ==
    LET contributors == DictFromItems(Sorted(all_contributors)) IN
    [repositories |-> repo_stats.repositories,
     contributors |-> contributors,
     num_unique_contributors |-> Len(contributors)]

\* lines 96-98 without the test of line 95: the report is always printed
FinishAlwaysPrints ==
    /\ pc = "loop"
    /\ idx > Len(names)
    /\ repo_stats' = Report
    /\ stdout' = Append(stdout, Report)
    /\ pc' = "done"
    /\ UNCHANGED <<raised, repos, idx, all_contributors, past_date, authors, iterated,
                   errors, lookups, listings, outcome, recording, listing,
                   warned, clock, sinceVars>>

\* lines 95-98: the loop is over
Finish ==
    /\ pc = "loop"
    /\ idx > Len(names)
    /\ IF repo_stats.repositories # <<>>
       THEN /\ repo_stats' = Report
            /\ stdout' = Append(stdout, Report)
       ELSE UNCHANGED <<repo_stats, stdout>>
    /\ pc' = "done"
    /\ UNCHANGED <<raised, repos, idx, all_contributors, past_date, authors, iterated,
                   errors, lookups, listings, outcome, recording, listing,
                   warned, clock, sinceVars>>

Next ==
    \/ Setup
    \/ UsageError
    \/ EnterLoop
    \/ LookupFails
    \/ LookupOk
    \/ ProbeFails
    \/ ProbeOk
    \/ NextCommit
    \/ IterationRaises
    \/ EndOfListing
    \/ Finish

Spec == Init /\ [][Next]_vars

SpecCollector == InitCollector /\ [][Next]_vars

(***************************************************************************)
(* A stand-alone call of since_datetime.                                   *)
(***************************************************************************)
\* time passes between the call and the function's clock read
ClockTick ==
    /\ sincePc = "called"
    /\ clock < callTime + MaxDrift
    /\ clock' = clock + 1
    /\ UNCHANGED <<mainVars, sinceVars>>

\* lines 25-27
SinceDatetime ==
    /\ sincePc = "called"
    /\ result' = since_datetime(clock, days)
    /\ sincePc' = "returned"
    /\ UNCHANGED <<mainVars, clock, days, callTime>>

NextSince ==
    \/ ClockTick
    \/ SinceDatetime

SpecSince == InitSince /\ [][NextSince]_vars

(***************************************************************************)
(* Properties.                                                             *)
(***************************************************************************)
Last(s) == s[Len(s)]

\* the outcomes in which find_recent_contributors was called and returned
Returned == {k \in DOMAIN outcome : outcome[k].kind # "notfound"}

\* the emails a listing carries
EmailsOf(l) == {l[i].email : i \in DOMAIN l}

\* the position of the last commit of l that carries email e
LastWith(l, e) == CHOOSE i \in DOMAIN l :
    /\ l[i].email = e
    /\ \A j \in DOMAIN l : l[j].email = e => j <= i

\* per email of l, the lowercased author name of the last commit carrying it
LastSeen(l) == {<<e, Lower(l[LastWith(l, e)].name)>> : e \in EmailsOf(l)}

\* C1: when the count probe succeeded and the listing is exhausted, the mapping
\* find_recent_contributors returns has exactly the emails of the listing as
\* keys (compared case-sensitively) and maps each to the lowercased author
\* name of the last commit carrying it: the later-seen name wins.
C1_LastSeenNameWins ==
    \A k \in DOMAIN outcome :
        outcome[k].kind = "ok" => outcome[k].contributors = LastSeen(listing)

\* a returned listing in which one email came with two different names
C1_Witness ==
    /\ outcome # <<>>
    /\ Last(outcome).kind = "ok"
    /\ \E i, j \in DOMAIN listing :
        /\ i < j
        /\ listing[i].email = listing[j].email
        /\ Lower(listing[i].name) # Lower(listing[j].name)
    /\ Cardinality(EmailsOf(listing)) = 2

\* the number of duplicate warnings logged for the current listing
DuplicateWarnings == Cardinality({i \in DOMAIN warned : warned[i]})

\* the names "Bo" and "Al" of Names, for the listings Bob, Bob and Bob, Alice, Bob
Bob == <<66, 111>>
Alice == <<65, 108>>
SameEmail == \A i, j \in DOMAIN listing : listing[i].email = listing[j].email
NamesOf(l) == [i \in DOMAIN l |-> l[i].name]

\* C2: in each pass of the loop the duplicate warning is logged exactly when
\* (email, lowercased name) is an entry of the mapping at that moment, and
\* then the mapping is left as it is; otherwise no warning is logged and
\* mapping[email] becomes the lowercased name, the other entries unchanged.
\* Bob, Bob under one email gives one warning; Bob, Alice, Bob gives none.
C2_DuplicateWarning ==
    /\ [][Len(listing') = Len(listing) + 1 =>
            LET commit == Last(listing')
                pair == <<commit.email, Lower(commit.name)>>
            IN  IF pair \in DictItems(authors)
                THEN /\ Last(warned')
                     /\ authors' = authors
                ELSE /\ ~Last(warned')
                     /\ pair \in DictItems(authors')
                     /\ DictKeys(authors') = DictKeys(authors) \cup {commit.email}
                     /\ \A p \in DictItems(authors) :
                            p[1] # commit.email => p \in DictItems(authors')
                     /\ Len(authors') = Cardinality(DictKeys(authors'))]_vars
    /\ [](SameEmail /\ NamesOf(listing) = <<Bob, Bob>> => DuplicateWarnings = 1)
    /\ [](SameEmail /\ NamesOf(listing) = <<Bob, Alice, Bob>> => DuplicateWarnings = 0)

\* Bob, Alice, Bob under one email has been iterated
C2_Witness ==
    /\ SameEmail
    /\ NamesOf(listing) = <<Bob, Alice, Bob>>
    /\ Len(warned) = 3

\* d[k] of a dict d that has the key k
DictGet(d, k) == (CHOOSE p \in DictItems(d) : p[1] = k)[2]

\* the last outcome in which the repository named n was looked up successfully
LastReturned(n) == CHOOSE k \in Returned :
    /\ outcome[k].repo = n
    /\ \A j \in Returned : outcome[j].repo = n => j <= k

\* the per-repository mappings merged in list order, a later one overwriting
MergedInOrder ==
    {p \in UNION {outcome[k].contributors : k \in Returned} :
        \E k \in Returned :
            /\ p \in outcome[k].contributors
            /\ \A j \in Returned :
                   j > k => p[1] \notin {q[1] : q \in outcome[j].contributors}}

\* what C3 says of the report: the counts, the merge, the total
AggregateAsClaimed ==
    /\ DictKeys(repo_stats.repositories) = {outcome[k].repo : k \in Returned}
    /\ \A n \in DictKeys(repo_stats.repositories) :
           DictGet(repo_stats.repositories, n) =
               Cardinality(outcome[LastReturned(n)].contributors)
    /\ Len(repo_stats.repositories) = Cardinality(DictKeys(repo_stats.repositories))
    /\ DictItems(repo_stats.contributors) = MergedInOrder
    /\ DictItems(all_contributors) = MergedInOrder
    /\ "num_unique_contributors" \in DOMAIN repo_stats
    /\ repo_stats.num_unique_contributors = Cardinality(DictKeys(repo_stats.contributors))
    /\ repo_stats.num_unique_contributors = Len(repo_stats.contributors)

\* C3 as stated: after every run that is not aborted the report holds the
\* count of each repository whose lookup succeeded (of its last successful
\* occurrence, when a name is listed twice), the merge of the mappings in list
\* order and num_unique_contributors, the number of keys of the merge.
C3_AsStated == pc = "done" => AggregateAsClaimed

\* C3, amended: the same, for the runs in which at least one lookup succeeded;
\* in the others the report is as line 75 set it, with no
\* num_unique_contributors.
C3_Aggregate ==
    pc = "done" =>
        IF Returned # {} THEN AggregateAsClaimed
        ELSE /\ repo_stats = [repositories |-> <<>>, contributors |-> <<>>]
             /\ all_contributors = <<>>

\* two repositories returned mappings that collide on an email with different
\* names, and the run is over
C3_Witness ==
    /\ pc = "done"
    /\ Len(outcome) = 2
    /\ \E p \in outcome[1].contributors : \E q \in outcome[2].contributors :
           p[1] = q[1] /\ p[2] # q[2]
    /\ repo_stats.num_unique_contributors = 2

\* the step in which main has handled a repository with the given API answer
Handled(kind) == Len(outcome') = Len(outcome) + 1 /\ Last(outcome').kind = kind

\* C4: when the count probe raises, find_recent_contributors returns the empty
\* mapping having iterated no commit and nothing propagates; main records the
\* repository with count 0, leaves the global mapping unchanged and goes on to
\* the next repository.
C4_EmptyRepository ==
    [][Handled("empty") =>
            /\ iterated = 0
            /\ ~raised'
            /\ Last(outcome').contributors = {}
            /\ <<repo, 0>> \in DictItems(repo_stats'.repositories)
            /\ DictKeys(repo_stats'.repositories) =
                   DictKeys(repo_stats.repositories) \cup {repo}
            /\ all_contributors' = all_contributors
            /\ idx' = idx + 1
            /\ pc' = "loop"]_vars

\* a probe failed for the second repository after the first gave contributors,
\* and the run went on to its end
C4_Witness ==
    /\ pc = "done"
    /\ Len(outcome) = 2
    /\ outcome[1].kind = "ok"
    /\ outcome[1].contributors # {}
    /\ outcome[2].kind = "empty"
    /\ outcome[1].repo # outcome[2].repo

\* C5: when the lookup raises, main logs the error and skips the repository:
\* no commit listing is requested, the repositories map and the global mapping
\* are unchanged, and the loop goes on, so that a run that is not aborted has
\* looked up every repository of the list.
C5_LookupFailure ==
    /\ [][Handled("notfound") =>
            /\ errors' > errors
            /\ lookups' = lookups + 1
            /\ listings' = listings
            /\ repo_stats' = repo_stats
            /\ all_contributors' = all_contributors
            /\ idx' = idx + 1
            /\ pc' = "loop"]_vars
    /\ [](pc = "done" => /\ lookups = Len(names)
                         /\ Len(outcome) = Len(names)
                         /\ listings = Cardinality(Returned))

\* the first lookup failed and the second repository was processed
C5_Witness ==
    /\ pc = "done"
    /\ Len(outcome) = 2
    /\ outcome[1].kind = "notfound"
    /\ outcome[2].kind = "ok"
    /\ outcome[2].contributors # {}

\* C6: the report is printed at most once and only at the end of the run, and
\* at the end of a run that is not aborted it has been printed if and only if
\* some repository's lookup succeeded and the collector returned for it.
C6_ReportIffProcessed ==
    /\ Len(stdout) <= 1
    /\ pc # "done" => stdout = <<>>
    /\ pc = "done" => (Len(stdout) = 1 <=> Returned # {})
    /\ pc = "done" /\ stdout # <<>> => stdout[1] = repo_stats

\* printed although the only repository that was processed gave the empty mapping
C6_Witness ==
    /\ pc = "done"
    /\ Len(stdout) = 1
    /\ Len(outcome) = 2
    /\ \E k \in DOMAIN outcome : outcome[k].kind = "notfound"
    /\ \A k \in Returned : outcome[k].contributors = {}

\* C7: with no -r option main logs an error and exits: it never enters the
\* loop, looks up no repository, requests no listing and prints nothing.
C7_UsageError ==
    repos.isNone =>
        /\ pc \in {"start", "check", "exited"}
        /\ pc = "exited" => errors = 1
        /\ lookups = 0
        /\ listings = 0
        /\ outcome = <<>>
        /\ stdout = <<>>

\* main has exited on the usage error
C7_Witness == repos.isNone /\ pc = "exited" /\ errors = 1

\* C8: an error raised while the commits are iterated aborts the run: nothing
\* is printed, also when earlier repositories were processed, and no later
\* repository is looked up.
C8_IterationErrorAborts ==
    /\ [](raised => /\ pc = "aborted"
                    /\ stdout = <<>>
                    /\ lookups = Len(outcome) + 1)
    /\ [][raised => UNCHANGED vars]_vars
    /\ [](pc = "aborted" => raised)

\* the second repository's iteration raised after a commit, the first
\* repository having been processed
C8_Witness ==
    /\ raised
    /\ Len(outcome) = 1
    /\ outcome[1].kind = "ok"
    /\ outcome[1].contributors # {}
    /\ iterated > 0

\* C9 as stated: since_datetime(days) returns a timestamp strictly less than the
\* time of the call, for every days >= 0.
C9_AsStated == sincePc = "returned" => Instant(result) < callTime

\* C9, amended: since_datetime(days) returns the clock reading minus days whole
\* days.  That is strictly less than the time of the call when days >= 1 and
\* less than days whole days pass between the call and the clock read; for
\* days = 0 it is the clock reading itself, at or after the time of the call.
C9_SinceDatetime ==
    sincePc = "returned" =>
        /\ Instant(result) = clock - days * TicksPerDay
        /\ (days >= 1 /\ clock - callTime < days * TicksPerDay)
               => Instant(result) < callTime
        /\ days = 0 => Instant(result) >= callTime

\* a call with days >= 1 that read the clock later than it was called, at a
\* time with microseconds
C9_Witness ==
    /\ sincePc = "returned"
    /\ days >= 1
    /\ clock > callTime
    /\ result.microsecond # 0
    /\ Instant(result) < callTime

\* C10: the keys of the contributors map of every printed report are in
\* ascending order.
C10_SortedKeys ==
    \A d \in DOMAIN stdout :
        \A i, j \in DOMAIN stdout[d].contributors :
            i < j => StrLess(stdout[d].contributors[i][1], stdout[d].contributors[j][1])

\* a report was printed whose emails were met in descending order
C10_Witness ==
    /\ stdout # <<>>
    /\ Len(all_contributors) = 2
    /\ StrLess(all_contributors[2][1], all_contributors[1][1])

====
